---- MODULE Spec2Model ----
(***************************************************************************)
(* Model of poller.go: a chain  driver <- MiddlewarePoller ... <- LongPoller *)
(* communicating over Go channels.                                          *)
(*                                                                          *)
(* An Update is represented by its ID.  A buffered Go channel is a FIFO     *)
(* sequence with a capacity; a `chan struct{}` that is only ever closed is  *)
(* a boolean (closed or not).  Layer 0 is the driver's side: chans[0] is    *)
(* the destination channel given to the outermost Poll and stops[0] its     *)
(* stop channel; for i >= 1, chans[i] and stops[i] are the `middle` and     *)
(* `stop2` channels made by the i-th MiddlewarePoller.Poll.  The LongPoller *)
(* is the innermost poller: it is given chans[depth] and stops[depth].      *)
(***************************************************************************)
EXTENDS Integers, Sequences, FiniteSets, TLC

\* ---- bounds of the model ----
MaxId == 3          \* update identifiers are 1..MaxId
MaxUpd == 4         \* total number of updates the fetches return
MaxBatch == 2       \* longest batch one fetch returns
MaxCapacity == 2    \* largest configured MiddlewarePoller.Capacity
DestCap == 1        \* capacity of the driver's destination channel

Ids == 1..MaxId

VARIABLES
    depth,      \* number of MiddlewarePoller layers around the LongPoller
    Capacity,   \* Capacity[i]: field Capacity of the i-th MiddlewarePoller
    filter,     \* filter[i]: set of update IDs the i-th filter accepts
    chans,      \* chans[j]: contents of channel j (0 = dest, i = middle of layer i)
    stops,      \* stops[j]: TRUE iff stop channel j has been closed
    mwPc,       \* mwPc[i]: position of the i-th MiddlewarePoller.Poll
    upd,        \* upd[i]: the update layer i dequeued and is sending (0 = none)
    lpPc,       \* position of LongPoller.Poll
    latestUpd,  \* LongPoller.Poll's cursor
    offset,     \* first argument of the last getUpdates call (0 = none yet)
    updates,    \* the part of the fetched batch the range loop still has to send
    err,        \* TRUE iff the getUpdates call of this iteration returned an error
    \* ---- history (observation only; never read by an action's guard) ----
    fetched,    \* all updates returned by successful fetches, in order
    sent,       \* sent[j]: all updates ever sent into channel j, in order
    recvd,      \* recvd[i]: all updates layer i has received from its middle
    dropped,    \* dropped[i]: all updates layer i has discarded
    atStop,     \* what the outer layer had written / was holding when stop was closed
    hiBatch,    \* highest ID the LongPoller wrote since it issued its last fetch
    fetchReturned, \* TRUE iff some getUpdates call has returned
    stopPhase   \* where the LongPoller was when its stop channel was closed

vars == <<depth, Capacity, filter, chans, stops, mwPc, upd, lpPc, latestUpd,
          offset, updates, err, fetched, sent, recvd, dropped, atStop, hiBatch,
          fetchReturned, stopPhase>>

config == <<depth, Capacity, filter>>
lpVars == <<lpPc, latestUpd, offset, updates, err, fetched, hiBatch,
            fetchReturned>>
mwHist == <<recvd, dropped>>

Max(a, b) == IF a >= b THEN a ELSE b

\* All sequences over S of length lo..hi.
SeqsOf(S, lo, hi) == UNION { [1..n -> S] : n \in lo..hi }

\* The field Capacity used as it is.
capNoClamp(c) == c

\* One slot more than configured.
capPlusOne(c) == (IF c > 1 THEN c ELSE 1) + 1

\* poller.go:44-47: the relay capacity computed from the field Capacity.
cap(c) == IF c > 1 THEN c ELSE 1

\* Capacity of channel j: the driver's for j = 0, make(chan Update, cap) else.
ChanCap(j) == IF j = 0 THEN DestCap ELSE cap(Capacity[j])

\* A send on channel j can proceed iff its buffer has room.
CanSend(j) == Len(chans[j]) < ChanCap(j)

\* The filter's result negated.
PassesInverted(i, u) == u \notin filter[i]

\* poller.go:60: p.filter(&upd) of layer i.
Passes(i, u) == u \in filter[i]

\* The cursor kept at the highest ID seen.
NextCursorMax(cur, u) == Max(cur, u)

\* The cursor left where it was.
NextCursorStale(cur, u) == cur

\* poller.go:89: latestUpd = update.ID.
NextCursor(cur, u) == u

\* The phase of LongPoller.Poll, recorded when its stop channel is closed.
LpPhase ==
    IF offset = 0 /\ lpPc \in {"idle", "loop"} THEN "before"
    ELSE IF ~fetchReturned THEN "inflight"
    ELSE "later"

\* State after construction of a chain of d middleware layers with Capacity
\* fields from caps and filters from filters: the driver is about to run the
\* outermost Poll, nothing else has been started.
InitWith(d, caps, filters) ==
    /\ depth = d
    /\ Capacity \in [1..d -> caps]
    /\ filter \in [1..d -> filters]
    /\ chans = [j \in 0..d |-> <<>>]
    /\ stops = [j \in 0..d |-> FALSE]
    /\ mwPc = [i \in 1..d |-> IF i = 1 THEN "start" ELSE "idle"]
    /\ upd = [i \in 1..d |-> 0]
    /\ lpPc = IF d = 0 THEN "loop" ELSE "idle"
    /\ latestUpd = 0
    /\ offset = 0
    /\ updates = <<>>
    /\ err = FALSE
    /\ fetched = <<>>
    /\ sent = [j \in 0..d |-> <<>>]
    /\ recvd = [i \in 1..d |-> <<>>]
    /\ dropped = [i \in 1..d |-> <<>>]
    /\ atStop = [written |-> 0, held |-> 0]
    /\ hiBatch = 0
    /\ fetchReturned = FALSE
    /\ stopPhase = "open"

\* Capacity unset (0, as Middleware() leaves it) or set to a positive value.
InitD(d) == InitWith(d, 0..MaxCapacity, SUBSET Ids)

Init == InitD(1)

\* Middleware(Middleware(source, f), g): Capacity is left unset, as the
\* constructor does, and the two filters differ and overlap (f rejects the
\* lowest ID and g the highest, or the other way round).
InitNested ==
    /\ InitWith(2, {0}, {Ids \ {1}, Ids \ {MaxId}})
    /\ filter[1] # filter[2]

\* Capacity may also be negative.
InitClamp == InitWith(1, (-1)..MaxCapacity, SUBSET Ids)

\* ---------------------------------------------------------------------------
\* The driver: owns chans[0] (reads it) and stops[0] (closes it once).

DriverStop ==
    /\ ~stops[0]
    /\ stops' = [stops EXCEPT ![0] = TRUE]
    /\ atStop' = [written |-> Len(sent[0]),
                  held |-> IF depth >= 1 /\ mwPc[1] = "send" THEN 1 ELSE 0]
    /\ stopPhase' = IF depth = 0 THEN LpPhase ELSE stopPhase
    /\ UNCHANGED <<config, chans, mwPc, upd, lpVars, sent, mwHist>>

DriverRecv ==
    /\ chans[0] # <<>>
    /\ chans' = [chans EXCEPT ![0] = Tail(@)]
    /\ UNCHANGED <<config, stops, mwPc, upd, lpVars, sent, mwHist, atStop,
                   stopPhase>>

\* ---------------------------------------------------------------------------
\* MiddlewarePoller.Poll of layer i (poller.go:43-65).

\* Lines 44-52: make middle and stop2, start the inner Poller's goroutine.
MwStart(i) ==
    /\ i \in 1..depth
    /\ mwPc[i] = "start"
    /\ IF i = depth
         THEN /\ lpPc' = "loop"
              /\ mwPc' = [mwPc EXCEPT ![i] = "select"]
         ELSE /\ lpPc' = lpPc
              /\ mwPc' = [mwPc EXCEPT ![i] = "select", ![i+1] = "start"]
    /\ UNCHANGED <<config, chans, stops, upd, latestUpd, offset, updates, err,
                   fetched, hiBatch, fetchReturned, sent, mwHist, atStop,
                   stopPhase>>

\* The stop case taken without the outer stop being closed.
MwStopEarly(i) ==
    /\ i \in 1..depth
    /\ mwPc[i] = "select"
    /\ stops' = [stops EXCEPT ![i] = TRUE]
    /\ mwPc' = [mwPc EXCEPT ![i] = "done"]
    /\ stopPhase' = IF i = depth THEN LpPhase ELSE stopPhase
    /\ UNCHANGED <<config, chans, upd, lpVars, sent, mwHist, atStop>>

\* The stop case leaving only the select (a bare break) instead of returning:
\* stop2 is closed and the loop goes on.
MwStopNoReturn(i) ==
    /\ i \in 1..depth
    /\ mwPc[i] = "select"
    /\ stops[i-1]
    /\ stops' = [stops EXCEPT ![i] = TRUE]
    /\ stopPhase' = IF i = depth /\ ~stops[i] THEN LpPhase ELSE stopPhase
    /\ UNCHANGED <<config, chans, mwPc, upd, lpVars, sent, mwHist, atStop>>

\* The stop case also offered while the send of line 61 is pending: the
\* dequeued update is given up.
MwStopWhileSending(i) ==
    /\ i \in 1..depth
    /\ mwPc[i] \in {"select", "send"}
    /\ stops[i-1]
    /\ stops' = [stops EXCEPT ![i] = TRUE]
    /\ mwPc' = [mwPc EXCEPT ![i] = "done"]
    /\ upd' = [upd EXCEPT ![i] = 0]
    /\ stopPhase' = IF i = depth THEN LpPhase ELSE stopPhase
    /\ UNCHANGED <<config, chans, lpVars, sent, mwHist, atStop>>

\* Lines 56-58: case <-stop: close(stop2); return.
MwStop(i) ==
    /\ i \in 1..depth
    /\ mwPc[i] = "select"
    /\ stops[i-1]
    /\ stops' = [stops EXCEPT ![i] = TRUE]
    /\ mwPc' = [mwPc EXCEPT ![i] = "done"]
    /\ stopPhase' = IF i = depth THEN LpPhase ELSE stopPhase
    /\ UNCHANGED <<config, chans, upd, lpVars, sent, mwHist, atStop>>

\* Lines 59-60: case upd := <-middle, then the filter decides.
MwRecv(i) ==
    /\ i \in 1..depth
    /\ mwPc[i] = "select"
    /\ chans[i] # <<>>
    /\ LET u == Head(chans[i]) IN
        /\ chans' = [chans EXCEPT ![i] = Tail(@)]
        /\ recvd' = [recvd EXCEPT ![i] = Append(@, u)]
        /\ IF Passes(i, u)
             THEN /\ upd' = [upd EXCEPT ![i] = u]
                  /\ mwPc' = [mwPc EXCEPT ![i] = "send"]
                  /\ dropped' = dropped
             ELSE /\ upd' = upd
                  /\ mwPc' = mwPc
                  /\ dropped' = [dropped EXCEPT ![i] = Append(@, u)]
    /\ UNCHANGED <<config, stops, lpVars, sent, atStop, stopPhase>>

\* The send of line 61 without going back to the select: the same update is
\* sent again.
MwSendAgain(i) ==
    /\ i \in 1..depth
    /\ mwPc[i] = "send"
    /\ CanSend(i-1)
    /\ chans' = [chans EXCEPT ![i-1] = Append(@, upd[i])]
    /\ sent' = [sent EXCEPT ![i-1] = Append(@, upd[i])]
    /\ UNCHANGED <<config, stops, mwPc, upd, lpVars, mwHist, atStop, stopPhase>>

\* Line 61: dest <- upd (blocks while the destination is full).
MwSend(i) ==
    /\ i \in 1..depth
    /\ mwPc[i] = "send"
    /\ CanSend(i-1)
    /\ chans' = [chans EXCEPT ![i-1] = Append(@, upd[i])]
    /\ sent' = [sent EXCEPT ![i-1] = Append(@, upd[i])]
    /\ upd' = [upd EXCEPT ![i] = 0]
    /\ mwPc' = [mwPc EXCEPT ![i] = "select"]
    /\ UNCHANGED <<config, stops, lpVars, mwHist, atStop, stopPhase>>

\* ---------------------------------------------------------------------------
\* LongPoller.Poll (poller.go:73-94), running on chans[depth], stops[depth].

\* Lines 77-79: case <-stop: return.
LpStop ==
    /\ lpPc = "loop"
    /\ stops[depth]
    /\ lpPc' = "done"
    /\ err' = FALSE
    /\ UNCHANGED <<config, chans, stops, mwPc, upd, latestUpd, offset, updates,
                   fetched, hiBatch, fetchReturned, sent, mwHist, atStop,
                   stopPhase>>

\* The fetch of line 81 asking from the cursor itself instead of cursor + 1.
LpFetchCallFromCursor ==
    /\ lpPc = "loop"
    /\ ~stops[depth]
    /\ lpPc' = "fetch"
    /\ offset' = latestUpd
    /\ hiBatch' = 0
    /\ err' = FALSE
    /\ UNCHANGED <<config, chans, stops, mwPc, upd, latestUpd, updates,
                   fetched, fetchReturned, sent, mwHist, atStop, stopPhase>>

\* The fetch of line 81 issued without looking at stop first.
LpFetchCallNoCheck ==
    /\ lpPc = "loop"
    /\ lpPc' = "fetch"
    /\ offset' = latestUpd + 1
    /\ hiBatch' = 0
    /\ err' = FALSE
    /\ UNCHANGED <<config, chans, stops, mwPc, upd, latestUpd, updates,
                   fetched, fetchReturned, sent, mwHist, atStop, stopPhase>>

\* Lines 80-81: default: call b.getUpdates(latestUpd+1, p.Timeout).
LpFetchCall ==
    /\ lpPc = "loop"
    /\ ~stops[depth]
    /\ lpPc' = "fetch"
    /\ offset' = latestUpd + 1
    /\ hiBatch' = 0
    /\ err' = FALSE
    /\ UNCHANGED <<config, chans, stops, mwPc, upd, latestUpd, updates,
                   fetched, fetchReturned, sent, mwHist, atStop, stopPhase>>

\* A failed fetch that starts over from the origin.
LpFetchErrReset ==
    /\ lpPc = "fetch"
    /\ lpPc' = "loop"
    /\ fetchReturned' = TRUE
    /\ err' = TRUE
    /\ latestUpd' = 0
    /\ UNCHANGED <<config, chans, stops, mwPc, upd, offset, updates,
                   fetched, hiBatch, sent, mwHist, atStop, stopPhase>>

\* A failed fetch that returns from Poll instead of continuing.
LpFetchErrReturn ==
    /\ lpPc = "fetch"
    /\ lpPc' = "done"
    /\ fetchReturned' = TRUE
    /\ err' = TRUE
    /\ UNCHANGED <<config, chans, stops, mwPc, upd, latestUpd, offset, updates,
                   fetched, hiBatch, sent, mwHist, atStop, stopPhase>>

\* Lines 83-86: getUpdates returned an error: debug and continue.
LpFetchErr ==
    /\ lpPc = "fetch"
    /\ lpPc' = "loop"
    /\ fetchReturned' = TRUE
    /\ err' = TRUE
    /\ UNCHANGED <<config, chans, stops, mwPc, upd, latestUpd, offset, updates,
                   fetched, hiBatch, sent, mwHist, atStop, stopPhase>>

\* Lines 81, 88-89: getUpdates returned a batch (any IDs, any order, possibly
\* empty); the range loop takes its first update and advances the cursor.
LpFetchOk ==
    /\ lpPc = "fetch"
    /\ \E batch \in SeqsOf(Ids, 0, MaxBatch) :
        /\ Len(fetched) + Len(batch) <= MaxUpd
        /\ fetched' = fetched \o batch
        /\ fetchReturned' = TRUE
        /\ err' = FALSE
        /\ updates' = batch
        /\ IF batch = <<>>
             THEN /\ lpPc' = "loop"
                  /\ latestUpd' = latestUpd
             ELSE /\ lpPc' = "send"
                  /\ latestUpd' = NextCursor(latestUpd, Head(batch))
    /\ UNCHANGED <<config, chans, stops, mwPc, upd, offset, hiBatch, sent,
                   mwHist, atStop, stopPhase>>

\* A non-blocking send: an update that finds dest full is skipped.
LpSendNonBlocking ==
    /\ lpPc = "send"
    /\ LET u == Head(updates)
           rest == Tail(updates) IN
        /\ IF CanSend(depth)
             THEN /\ chans' = [chans EXCEPT ![depth] = Append(@, u)]
                  /\ sent' = [sent EXCEPT ![depth] = Append(@, u)]
                  /\ hiBatch' = Max(hiBatch, u)
             ELSE UNCHANGED <<chans, sent, hiBatch>>
        /\ updates' = rest
        /\ IF rest = <<>>
             THEN /\ lpPc' = "loop"
                  /\ latestUpd' = latestUpd
             ELSE /\ lpPc' = "send"
                  /\ latestUpd' = NextCursor(latestUpd, Head(rest))
    /\ UNCHANGED <<config, stops, mwPc, upd, offset, err, fetched,
                   fetchReturned, mwHist, atStop, stopPhase>>

\* Lines 88-91: dest <- update (blocks while dest is full), then the range
\* loop goes on to the next update of the batch, or the for loop iterates.
LpSend ==
    /\ lpPc = "send"
    /\ CanSend(depth)
    /\ LET u == Head(updates)
           rest == Tail(updates) IN
        /\ chans' = [chans EXCEPT ![depth] = Append(@, u)]
        /\ sent' = [sent EXCEPT ![depth] = Append(@, u)]
        /\ hiBatch' = Max(hiBatch, u)
        /\ updates' = rest
        /\ IF rest = <<>>
             THEN /\ lpPc' = "loop"
                  /\ latestUpd' = latestUpd
             ELSE /\ lpPc' = "send"
                  /\ latestUpd' = NextCursor(latestUpd, Head(rest))
    /\ UNCHANGED <<config, stops, mwPc, upd, offset, err, fetched,
                   fetchReturned, mwHist, atStop, stopPhase>>

\* ---------------------------------------------------------------------------
Mw(i) == MwStart(i) \/ MwStop(i) \/ MwRecv(i) \/ MwSend(i)

Lp == LpStop \/ LpFetchCall \/ LpFetchErr \/ LpFetchOk \/ LpSend

Next ==
    \/ DriverStop
    \/ DriverRecv
    \/ \E i \in 1..depth : MwStart(i)
    \/ \E i \in 1..depth : MwStop(i)
    \/ \E i \in 1..depth : MwRecv(i)
    \/ \E i \in 1..depth : MwSend(i)
    \/ LpStop
    \/ LpFetchCall
    \/ LpFetchErr
    \/ LpFetchOk
    \/ LpSend

Spec == Init /\ [][Next]_vars

SpecClamp == InitClamp /\ [][Next]_vars

SpecNested == InitNested /\ [][Next]_vars

\* Fair scheduling: every goroutine that can take a step eventually takes one,
\* every getUpdates call returns, and a select whose stop case is ready again
\* and again eventually takes it (Go chooses among ready cases at random).
Fairness ==
    /\ WF_vars(Lp)
    /\ \A i \in 1..2 : WF_vars(Mw(i)) /\ SF_vars(MwStop(i))

\* The driver keeps receiving from the destination channel forever.
FairSpec == Spec /\ Fairness /\ WF_vars(DriverRecv)

\* The nested chain under fair scheduling with a driver that keeps receiving.
FairSpecNested == SpecNested /\ Fairness /\ WF_vars(DriverRecv)

\* The driver is only bound to receive until it has closed stop.
FairSpecIdle == Spec /\ Fairness /\ WF_vars(DriverRecv /\ ~stops[0])

TypeOK ==
    /\ depth \in 0..2
    /\ \A j \in 0..depth : Len(chans[j]) <= ChanCap(j)
    /\ lpPc \in {"idle", "loop", "fetch", "send", "done"}
    /\ \A i \in 1..depth : mwPc[i] \in {"idle", "start", "select", "send", "done"}
    /\ latestUpd \in 0..MaxId
    /\ Len(fetched) <= MaxUpd

\* ===========================================================================
\* Properties.

RECURSIVE IsSubseq(_, _)
\* s is a subsequence of t (same relative order, nothing added).
IsSubseq(s, t) ==
    IF s = <<>> THEN TRUE
    ELSE IF t = <<>> THEN FALSE
    ELSE IF Head(s) = Head(t) THEN IsSubseq(Tail(s), Tail(t))
    ELSE IsSubseq(s, Tail(t))

NonDecreasing(s) == \A k \in 1..(Len(s) - 1) : s[k] <= s[k+1]

\* The update satisfies the predicate of every layer.
PassesAll(u) == \A i \in 1..depth : u \in filter[i]

\* What layer i holds between its receive and its send.
Held(i) == IF mwPc[i] = "send" THEN <<upd[i]>> ELSE <<>>

\* The updates the LongPoller has advanced its cursor past.
Advanced == sent[depth] \o (IF lpPc = "send" THEN <<Head(updates)>> ELSE <<>>)

\* A step in which LongPoller.Poll issues a getUpdates call.
IssueFetch == lpPc # "fetch" /\ lpPc' = "fetch"

\* LongPoller.Poll is blocked in `dest <- update`.
LpBlocked == lpPc = "send" /\ ~CanSend(depth)

\* C1: once the outer stop channel is closed, nothing more is written to the
\* outer destination except at most the one update the outer middleware had
\* already dequeued when stop was closed.
C1_StopResponsive ==
    stops[0] => Len(sent[0]) <= atStop.written + atStop.held

\* C4: shutdown loses no update: once the outer Poll has returned, every
\* update the LongPoller advanced its cursor past and that passes the filters
\* has been written to the outer destination.
C4_NoLoss ==
    (depth >= 1 /\ mwPc[1] = "done") => SelectSeq(Advanced, PassesAll) = sent[0]

\* C5 (as stated): for any fetch results, the cursor used for a new fetch
\* request is at least the highest ID written during the previous fetch and at
\* least the cursor of the previous request.
C5_CursorMonotone ==
    [][IssueFetch => (latestUpd >= hiBatch /\ latestUpd + 1 >= offset)]_vars

\* C5 (amended): the same, for fetch results whose IDs never decrease in the
\* order returned (within a batch and from one batch to the next).
C5_CursorMonotoneOrdered ==
    [][(IssueFetch /\ NonDecreasing(fetched))
          => (latestUpd >= hiBatch /\ latestUpd + 1 >= offset)]_vars

C5_Witness ==
    /\ lpPc = "fetch"
    /\ NonDecreasing(fetched)
    /\ Len(fetched) >= 2
    /\ fetched[1] < fetched[Len(fetched)]
    /\ sent[depth] = fetched
    /\ offset = fetched[Len(fetched)] + 1

\* C6: at every moment, what a middleware layer has written to its destination
\* is a subsequence, in the same order, of what its inner Poller has sent into
\* the relay channel.
C6_OrderPreserved ==
    \A i \in 1..depth : IsSubseq(sent[i-1], sent[i])

C6_Witness ==
    /\ depth >= 1
    /\ Len(sent[0]) >= 2
    /\ Len(sent[1]) > Len(sent[0])
    /\ sent[0][1] # sent[0][2]

\* C7: every update a middleware layer wrote passes its filter, every update it
\* discarded fails it, and what it wrote (plus what it holds for sending) is
\* exactly the passing part of what it dequeued.
C7_FilterCorrect ==
    \A i \in 1..depth :
        /\ \A k \in 1..Len(sent[i-1]) : sent[i-1][k] \in filter[i]
        /\ \A k \in 1..Len(dropped[i]) : dropped[i][k] \notin filter[i]
        /\ Len(recvd[i]) = Len(sent[i-1]) + Len(Held(i)) + Len(dropped[i])
        /\ LET pass(u) == u \in filter[i] IN
             SelectSeq(recvd[i], pass) = sent[i-1] \o Held(i)

\* Inner output [a, b, b, c] with a filter accepting exactly the IDs above a
\* yields [b, b, c] (the scenario [5, 7, 7, 9] with `identifier > 6`).
C7_Witness ==
    /\ depth = 1
    /\ ~stops[0]
    /\ Len(recvd[1]) = 4
    /\ recvd[1][1] < recvd[1][2]
    /\ recvd[1][2] = recvd[1][3]
    /\ recvd[1][3] < recvd[1][4]
    /\ filter[1] = { u \in Ids : u > recvd[1][1] }
    /\ sent[0] = SubSeq(recvd[1], 2, 4)
    /\ dropped[1] = SubSeq(recvd[1], 1, 1)
    /\ chans[0] = <<>>

\* C8: while the LongPoller is blocked writing an update it issues no fetch,
\* and it issues a fetch only when every update fetched so far has been
\* written to its destination.
C8_Backpressure ==
    [][/\ IssueFetch => (updates = <<>> /\ sent[depth] = fetched)
       /\ LpBlocked => (~IssueFetch /\ offset' = offset /\ fetched' = fetched)]_vars

C8_Witness ==
    /\ LpBlocked
    /\ Len(updates) >= 2
    /\ offset >= 2

\* C10: a Poll call that has returned was given a stop channel that is closed.
C10_ReturnOnlyAfterStop ==
    /\ lpPc = "done" => stops[depth]
    /\ \A i \in 1..depth : mwPc[i] = "done" => stops[i-1]

C10_Witness ==
    /\ lpPc = "done"
    /\ depth >= 1
    /\ mwPc[1] = "done"
    /\ fetched # <<>>
    /\ dropped[1] # <<>>

\* C2: after the outer stop is closed, every wrapped inner Poller eventually
\* returns from Poll.
C2_ChainTerminates ==
    stops[0] ~> (lpPc = "done" /\ \A i \in 2..depth : mwPc[i] = "done")

\* C3: after the outer stop is closed, the outer MiddlewarePoller.Poll
\* eventually returns, also when the driver no longer receives.
C3_OuterReturns ==
    (depth >= 1 /\ stops[0]) ~> mwPc[1] = "done"

\* C9 (as stated): if the LongPoller's stop is closed before any fetch call has
\* returned (before its first stop check, or during its first fetch), it writes
\* no update to its destination.
C9_ZeroUpdatesOnEarlyStop ==
    stopPhase \in {"before", "inflight"} => sent[depth] = <<>>

\* C9 (amended): if the LongPoller's stop is closed before its first stop
\* check, it issues no fetch and writes no update, and its first stop check
\* returns from Poll.
C9_StopBeforeFirstCheck ==
    stopPhase = "before" =>
        /\ sent[depth] = <<>>
        /\ fetched = <<>>
        /\ offset = 0
        /\ ~fetchReturned
        /\ lpPc = "done" \/ (lpPc = "loop" /\ ENABLED LpStop)

C9_Witness ==
    /\ stopPhase = "before"
    /\ lpPc = "done"
    /\ sent[depth] = <<>>

\* C11: once a Poll call has taken the stop case of its select, it sends
\* nothing more on its destination channel.  (A MiddlewarePoller that took the
\* stop case has closed its stop2; only layer i sends on chans[i-1], only the
\* LongPoller on chans[depth].)
C11_NoWriteAfterObservingStop ==
    [][/\ \A i \in 1..depth : stops[i] => sent'[i-1] = sent[i-1]
       /\ lpPc = "done" => sent'[depth] = sent[depth]]_vars

C11_Witness ==
    /\ depth >= 1
    /\ mwPc[1] = "done"
    /\ lpPc = "done"
    /\ chans[1] # <<>>
    /\ chans[1][1] \in filter[1]
    /\ chans[0] = <<>>
    /\ sent[0] # <<>>

\* C12: a failed fetch writes nothing, leaves the cursor and every channel as
\* they were and does not return from Poll; the step after it either takes the
\* stop case or issues a fetch with the same cursor.
C12_FetchFailureRecovered ==
    [][/\ (lpPc = "fetch" /\ err') =>
            /\ lpPc' = "loop"
            /\ latestUpd' = latestUpd
            /\ <<chans, sent, stops, updates, fetched>>' =
                   <<chans, sent, stops, updates, fetched>>
       /\ (err /\ lpPc' # lpPc) =>
            /\ lpPc = "loop"
            /\ \/ lpPc' = "done" /\ stops[depth]
               \/ /\ lpPc' = "fetch" /\ ~stops[depth]
                  /\ offset' = offset
                  /\ offset' = latestUpd + 1]_vars

\* A failure after some updates were delivered: the cursor is kept.
C12_Witness ==
    /\ err
    /\ lpPc = "loop"
    /\ latestUpd > 0
    /\ sent[depth] # <<>>
    /\ offset = latestUpd + 1

\* C13: a MiddlewarePoller.Poll that has returned holds no dequeued update:
\* every update it received that satisfies its predicate has been written to
\* its destination, also when stop was closed while it was holding one.
C13_NoDequeuedDropped ==
    \A i \in 1..depth :
        mwPc[i] = "done" =>
            /\ upd[i] = 0
            /\ LET pass(u) == u \in filter[i] IN
                 SelectSeq(recvd[i], pass) = sent[i-1]

C13_Witness ==
    /\ depth >= 1
    /\ mwPc[1] = "done"
    /\ atStop.held = 1
    /\ Len(sent[0]) = atStop.written + 1

\* The last element of a non-empty sequence.
Last(q) == q[Len(q)]

\* C14: what the LongPoller has written to its destination is a prefix of the
\* concatenation of the batches the successful fetches returned, and the rest
\* of that concatenation is exactly what the range loop still has to send.
C14_InOrderGapFree ==
    /\ Len(sent[depth]) <= Len(fetched)
    /\ sent[depth] = SubSeq(fetched, 1, Len(sent[depth]))
    /\ fetched = sent[depth] \o updates

C14_Witness ==
    /\ lpPc = "send"
    /\ offset >= 2
    /\ Len(sent[depth]) >= 2
    /\ sent[depth][1] # sent[depth][2]
    /\ Len(updates) >= 2

\* C15: while an update is being written (or waits to be written) the cursor
\* already equals its ID; otherwise the cursor equals the ID of the last
\* update written, and 0 before the first one.
C15_CursorBeforeWrite ==
    /\ lpPc = "send" => (updates # <<>> /\ latestUpd = Head(updates))
    /\ lpPc # "send" =>
         latestUpd = (IF sent[depth] = <<>> THEN 0 ELSE Last(sent[depth]))

C15_Witness ==
    /\ LpBlocked
    /\ sent[depth] # <<>>
    /\ latestUpd = Head(updates)
    /\ latestUpd # Last(sent[depth])

\* C16: an iteration of LongPoller.Poll that starts with stop closed returns
\* and issues no fetch; one that starts with stop open issues one fetch, from
\* cursor + 1 (from 1 the first time); nothing is fetched after the return.
C16_LoopInvariant ==
    [][/\ IssueFetch =>
            /\ lpPc = "loop"
            /\ ~stops[depth]
            /\ offset' = latestUpd + 1
            /\ offset = 0 => offset' = 1
       /\ (lpPc = "loop" /\ lpPc' # "loop") =>
            lpPc' = (IF stops[depth] THEN "done" ELSE "fetch")
       /\ offset' # offset => IssueFetch
       /\ lpPc = "done" => lpPc' = "done"]_vars

C16_Witness ==
    /\ lpPc = "done"
    /\ offset > 1
    /\ offset = latestUpd + 1
    /\ sent[depth] # <<>>

\* C17: stop2 of a MiddlewarePoller is closed only by that middleware's stop
\* case, only once, only with its outer stop closed, and stays closed; the
\* outer stop is not closed by any Poller.
C17_DerivedStop ==
    /\ [](\A i \in 1..depth : stops[i] => stops[i-1])
    /\ [][/\ \A i \in 1..depth :
               /\ stops[i] => stops'[i]
               /\ (stops'[i] /\ ~stops[i]) =>
                      (stops[i-1] /\ mwPc[i] = "select" /\ mwPc'[i] = "done")
               /\ (mwPc[i] = "select" /\ mwPc'[i] = "done") => ~stops[i]
          /\ stops'[0] # stops[0] => (mwPc' = mwPc /\ lpPc' = lpPc)]_vars

C17_Witness ==
    /\ depth >= 1
    /\ stops[1]
    /\ mwPc[1] = "done"
    /\ lpPc = "send"
    /\ sent[1] # <<>>

\* The relay capacity the configuration calls for.
RelayCap(i) == IF Capacity[i] > 1 THEN Capacity[i] ELSE 1

\* The Poller that sends into channel j is at its send.
SenderWaits(j) == IF j = depth THEN lpPc = "send" ELSE mwPc[j+1] = "send"

\* C18: the relay channel of a MiddlewarePoller has capacity Capacity when
\* Capacity > 1 and 1 otherwise (zero, unset, negative): it never holds more,
\* and a sender is only blocked on it when it holds exactly that many.
C18_RelayCapacityClamp ==
    \A i \in 1..depth :
        /\ Len(chans[i]) <= RelayCap(i)
        /\ (SenderWaits(i) /\ ~CanSend(i)) => Len(chans[i]) = RelayCap(i)

C18_Witness ==
    /\ depth >= 1
    /\ Capacity[1] < 0
    /\ LpBlocked
    /\ Len(chans[1]) = 1

\* Updates sent into the relay of layer i that the layer has neither forwarded
\* nor discarded.
InFlight(i) == Len(sent[i]) - Len(sent[i-1]) - Len(dropped[i])

\* The driver has received nothing and no filter has discarded anything.
NeverDrained == chans[0] = sent[0] /\ \A i \in 1..depth : dropped[i] = <<>>

\* The destination is full, every layer waits at its send with a full relay.
ChainFull ==
    /\ Len(chans[0]) = DestCap
    /\ \A i \in 1..depth : mwPc[i] = "send" /\ Len(chans[i]) = RelayCap(i)

RECURSIVE Room(_)
\* The updates layers 1..i and the destination can take in without a receive
\* by the driver.
Room(i) == IF i = 0 THEN DestCap ELSE Room(i-1) + RelayCap(i) + 1

\* C20: a middleware layer never has more than capacity + 1 updates in
\* flight; so with an undrained destination and passing updates the
\* LongPoller can write only so many, and once the chain is full it is
\* blocked at its send and can take no step (hence issues no fetch).
C20_BoundedBuffering ==
    /\ \A i \in 1..depth : InFlight(i) <= RelayCap(i) + 1
    /\ NeverDrained => Len(sent[depth]) <= Room(depth)
    /\ (ChainFull /\ lpPc = "send") => (LpBlocked /\ ~ENABLED Lp)

C20_Witness ==
    /\ depth >= 1
    /\ NeverDrained
    /\ ChainFull
    /\ LpBlocked
    /\ InFlight(1) = RelayCap(1) + 1
    /\ Len(sent[depth]) = Room(depth)

IsPrefix(q, t) == Len(q) <= Len(t) /\ q = SubSeq(t, 1, Len(q))

\* What the source (the LongPoller) has emitted that satisfies every predicate.
SourcePassing == SelectSeq(sent[depth], PassesAll)

====
